---- MODULE Spec2Model ----
(***************************************************************************)
(* Model of check_fps.cpp: one Camera object per configured stream (its    *)
(* GStreamer pipeline, its frame counter and its supervisor thread running  *)
(* Camera::run), the process-wide maps fps_map and downtime_map guarded by  *)
(* fps_mutex, the Reporter thread print_fps, and main.                      *)
(*                                                                          *)
(* Threads are interleaved at the granularity of their blocking points and  *)
(* of their accesses to shared memory.  A stream is named by its index i,   *)
(* standing for the key "cam<i-1>" that read_camera_uris builds.            *)
(*                                                                          *)
(* Undefined behaviour is a choice among its outcomes: a division by zero   *)
(* traps or yields 0, a read of `running` in a deleted Camera yields either *)
(* value, and any step of Camera::run on a deleted Camera may kill the      *)
(* process (crashed) or go on as if the memory were intact.                 *)
(*                                                                          *)
(* SpecStream explores at most one stream with every command line,          *)
(* SpecFleet up to MaxCams streams sampled every second, SpecReport the     *)
(* Reporter alone against every registry content.  FairStream is SpecStream *)
(* with every thread scheduled weakly fairly; FairMonitoring is SpecStream  *)
(* with the threads scheduled strongly fairly and main's 6000 s sleep not   *)
(* forced to end.                                                           *)
(***************************************************************************)
EXTENDS Integers, Sequences, FiniteSets, TLC

\* ------------------------------------------------------------------ bounds

\* Largest number of non-empty lines of cameras.txt that is explored.
MaxCams == 2

\* Largest interval argument that is explored (the smallest is -1).
MaxInterval == 2

\* Largest number of frames the streams deliver, all together, during the run.
MaxFrames == 2

\* Largest published rate in the registries the Reporter is run against.
MaxFps == 6

\* ------------------------------------------------------- program constants

\* `downtime_map[name] = -1` in the constructor.
InitialDowntime == -1

\* `if (downtime_map[name] >= 5)` in Camera::run.
ReconnectThreshold == 5

\* `if (entry.second < 5)` in print_fps.
DisplayThreshold == 5

\* ---------------------------------------------------------------- helpers

CamIds == 1..MaxCams

\* The values std::stoi can hand to main (bounded).
IntervalArgs == (0 - 1)..MaxInterval

\* The command lines explored: no argument after the program name, an
\* argument without a leading number ("abc"), a whole number, and a number
\* followed by other characters (<<"trailing", 1>> stands for "1s" or "1.5").
Arguments ==
    {<<"missing", 0>>, <<"garbage", 0>>, <<"trailing", 1>>}
        \cup {<<"number", n>> : n \in IntervalArgs}

\* std::stoi(argv[1]): the leading whole number of the string, whatever
\* follows it; std::invalid_argument when the string does not start with one.
Stoi(a) ==
    IF a[1] \in {"number", "trailing"} THEN <<"value", a[2]>> ELSE <<"throw", 0>>

\* The states of ../cameras.txt: it cannot be opened, or it holds n
\* non-empty lines.
Files == {<<"unreadable", 0>>} \cup {<<"lines", n>> : n \in 0..MaxCams}

\* read_camera_uris: the keys cam0, cam1, ... of the map it returns, one per
\* non-empty line; the empty map when the file cannot be opened.
ReadCameraUris(f) == IF f[1] = "lines" THEN 1..f[2] ELSE {}

Abs(x) == IF x < 0 THEN 0 - x ELSE x

\* Mutant of CDiv: the quotient rounded away from zero.
CDivRoundUp(a, b) ==
    IF (a >= 0) = (b > 0)
    THEN (Abs(a) + Abs(b) - 1) \div Abs(b)
    ELSE 0 - ((Abs(a) + Abs(b) - 1) \div Abs(b))

\* C++ `a / b` on int for b # 0: the quotient truncated towards zero.
CDiv(a, b) ==
    IF (a >= 0) = (b > 0)
    THEN Abs(a) \div Abs(b)
    ELSE 0 - (Abs(a) \div Abs(b))

\* std::map<std::string,int>::operator[] as an rvalue: a missing key reads 0.
MapGet(m, k) == IF k \in DOMAIN m THEN m[k] ELSE 0

\* std::map<std::string,int>::operator[] as an lvalue: insert or overwrite.
MapPut(m, k, v) == [x \in (DOMAIN m) \cup {k} |-> IF x = k THEN v ELSE m[x]]

EmptyMap == [x \in {} |-> 0]

\* Mutant of Name: every Camera uses the same key.
NameShared(c) == 1

\* Camera::name of stream c, the key of its entries in both global maps.
Name(c) == c

\* Holders of a std::mutex.
Free == <<"free">>
Sup(c) == <<"run", c>>
Rep == <<"reporter">>

VARIABLES
    argv1,          \* the command line: argv[1], or its absence
    supply,         \* the frames the sources deliver, all together, in the run
    file,           \* ../cameras.txt
    interval,       \* main's `interval` (0 before it is initialised)
    camera_uris,    \* the keys of main's camera_uris, as a set of indices
    mainpc,         \* main's position
    mainidx,        \* the stream main's current loop is at
    cam,            \* per stream: "absent", "live" or "deleted" Camera object
    built,          \* per stream: the constructor created all its elements
    pipeline,       \* per stream: state of the GStreamer pipeline
    frame_count,    \* per stream: Camera::frame_count
    running,        \* per stream: Camera::running
    mutex,          \* per stream: holder of Camera::mutex
    runpc,          \* per stream: position of the thread running Camera::run
    fps,            \* per stream: Camera::run's local `fps`
    cbpc,           \* per stream: position of the streaming thread's callback
    fps_mutex,      \* holder of the global fps_mutex
    fps_map,        \* the global fps_map
    downtime_map,   \* the global downtime_map
    reporterpc,     \* position of the thread running print_fps
    count,          \* print_fps's local `count`
    line,           \* the items print_fps has written to std::cout for the
                    \* line in progress
    crashed,        \* the process has been killed (undefined behaviour
                    \* trapped, or std::terminate)
    recorded,       \* history: per stream, frames counted by on_new_sample
    sampled,        \* history: per stream, sum of the counts Camera::run read
    readCount,      \* history: per stream, the count the last sample read
    lastWin,        \* history: per stream, frames recorded in the last window
    published,      \* history: per stream, <<v>> for the last value its
                    \* supervisor published, <<>> before its first sample
    zeroRun         \* history: per stream, consecutive zero-fps windows since
                    \* start-up, the last non-zero window or the last reconnect

vars == <<argv1, supply, file, interval, camera_uris, mainpc, mainidx, cam, built, pipeline,
          frame_count, running, mutex, runpc, fps, cbpc, fps_mutex, fps_map,
          downtime_map, reporterpc, count, line, crashed, recorded, sampled,
          readCount, lastWin, published, zeroRun>>

mainVars == <<mainpc, mainidx>>
repVars == <<reporterpc, count, line>>
inputVars == <<argv1, supply, file, interval, camera_uris>>
histVars == <<recorded, sampled, readCount, lastWin, published, zeroRun>>

\* ------------------------------------------------------------------- Init

\* The process at the entry of main: nothing is constructed, both global
\* maps are empty, no thread is running.
Init ==
    /\ argv1 \in Arguments
    /\ supply \in 0..MaxFrames
    /\ file \in Files
    /\ interval = 0
    /\ camera_uris = {}
    /\ mainpc = "args"
    /\ mainidx = 1
    /\ cam = [c \in CamIds |-> "absent"]
    /\ built = [c \in CamIds |-> FALSE]
    /\ pipeline = [c \in CamIds |-> "NULL"]
    /\ frame_count = [c \in CamIds |-> 0]
    /\ running = [c \in CamIds |-> FALSE]
    /\ mutex = [c \in CamIds |-> Free]
    /\ runpc = [c \in CamIds |-> "none"]
    /\ fps = [c \in CamIds |-> 0]
    /\ cbpc = [c \in CamIds |-> "idle"]
    /\ fps_mutex = Free
    /\ fps_map = EmptyMap
    /\ downtime_map = EmptyMap
    /\ reporterpc = "none"
    /\ count = 0
    /\ line = <<>>
    /\ crashed = FALSE
    /\ recorded = [c \in CamIds |-> 0]
    /\ sampled = [c \in CamIds |-> 0]
    /\ readCount = [c \in CamIds |-> 0]
    /\ lastWin = [c \in CamIds |-> 0]
    /\ published = [c \in CamIds |-> <<>>]
    /\ zeroRun = [c \in CamIds |-> 0]

\* ------------------------------------------------- the decoding collaborator

\* gst_element_set_state(pipeline, GST_STATE_PLAYING) in Camera::start: the
\* outcomes are success (frames may follow) and GST_STATE_CHANGE_FAILURE.  A
\* pipeline whose elements were not created, or one already unreferenced by
\* the destructor, cannot be set playing.
StartOutcomes(c) ==
    IF built[c] /\ cam[c] = "live" THEN {"PLAYING", "NULL"} ELSE {"NULL"}

\* gst_element_set_state(pipeline, GST_STATE_NULL) in Camera::stop and in the
\* destructor returns only once the streaming thread has left the pipeline:
\* an on_new_sample in flight has to return first.
CanStop(c) == cbpc[c] = "idle"

RECURSIVE SumOver(_, _)
SumOver(f, S) ==
    IF S = {} THEN 0
    ELSE LET x == CHOOSE y \in S : TRUE IN f[x] + SumOver(f, S \ {x})

\* The sources have frames left to deliver.
FramesLeft == SumOver(recorded, CamIds) < supply

\* Mutant of MutexFree: Camera::mutex excludes nobody.
MutexIgnored(c) == TRUE

\* Camera::mutex of stream c can be taken.
MutexFree(c) == mutex[c] = Free

\* Mutant of FpsMutexFree: fps_mutex excludes nobody.
FpsMutexIgnored == TRUE

\* fps_mutex can be taken.
FpsMutexFree == fps_mutex = Free

\* ------------------------------------------------------------------- main

\* main, `if (argc < 2)` and `int interval = std::stoi(argv[1])`: without an
\* argument main prints the usage message and returns 1; when std::stoi
\* throws, nothing catches the exception and std::terminate kills the
\* process; otherwise the value std::stoi returns is the interval.
MainParse ==
    /\ ~crashed
    /\ mainpc = "args"
    /\ IF argv1[1] = "missing"
       THEN /\ mainpc' = "usage"
            /\ UNCHANGED <<interval, crashed>>
       ELSE IF Stoi(argv1)[1] = "throw"
       THEN /\ mainpc' = "terminated"
            /\ crashed' = TRUE
            /\ UNCHANGED interval
       ELSE /\ interval' = Stoi(argv1)[2]
            /\ mainpc' = "read"
            /\ UNCHANGED crashed
    /\ UNCHANGED <<argv1, supply, file, camera_uris, mainidx, cam, built, pipeline,
                   frame_count, running, mutex, runpc, fps, cbpc, fps_mutex,
                   fps_map, downtime_map, repVars, histVars>>

\* main, `camera_uris = read_camera_uris("../cameras.txt")`: a file that
\* cannot be opened is logged and gives the empty map, and main goes on.
MainRead ==
    /\ ~crashed
    /\ mainpc = "read"
    /\ camera_uris' = ReadCameraUris(file)
    /\ mainpc' = "construct"
    /\ UNCHANGED <<argv1, supply, file, interval, mainidx, cam, built, pipeline,
                   frame_count, running, mutex, runpc, fps, cbpc, fps_mutex,
                   fps_map, downtime_map, repVars, crashed, histVars>>

\* A supervisor is inside the scope of its fps_lock, where it reads and
\* writes fps_map and downtime_map.
SupervisorInMaps == \E c \in CamIds : fps_mutex = Sup(c)

\* The outcomes of the constructor's `downtime_map[name] = -1`, which takes
\* no lock: alone in the maps it inserts the entry; concurrent with a
\* supervisor's accesses it is a data race on the std::map, which either
\* goes unnoticed (the entry is inserted) or kills the process.
InsertOutcomes == IF SupervisorInMaps THEN {"inserted", "killed"} ELSE {"inserted"}

\* main, `new Camera(entry.first, entry.second)`: the constructor sets
\* frame_count(0), running(true), writes downtime_map[name] = -1 without
\* taking fps_mutex, and creates the pipeline elements; when one of them
\* cannot be created it logs and returns, and the object exists all the same.
MainConstruct(c) ==
    /\ ~crashed
    /\ mainpc = "construct"
    /\ mainidx = c
    /\ c \in camera_uris
    /\ cam' = [cam EXCEPT ![c] = "live"]
    /\ frame_count' = [frame_count EXCEPT ![c] = 0]
    /\ running' = [running EXCEPT ![c] = TRUE]
    /\ \E o \in InsertOutcomes :
          IF o = "killed"
          THEN /\ crashed' = TRUE
               /\ UNCHANGED <<downtime_map, built, mainpc>>
          ELSE /\ downtime_map' = MapPut(downtime_map, Name(c), InitialDowntime)
               /\ \E ok \in BOOLEAN : built' = [built EXCEPT ![c] = ok]
               /\ mainpc' = "start"
               /\ UNCHANGED crashed
    /\ UNCHANGED <<mainidx, inputVars, pipeline, mutex, runpc, fps, cbpc,
                   fps_mutex, fps_map, repVars, histVars>>

\* main, `camera->start(); cameras.push_back(camera);
\* threads.emplace_back(&Camera::run, camera, interval)`.
MainStart(c) ==
    /\ ~crashed
    /\ mainpc = "start"
    /\ mainidx = c
    /\ \E st \in StartOutcomes(c) : pipeline' = [pipeline EXCEPT ![c] = st]
    /\ runpc' = [runpc EXCEPT ![c] = "top"]
    /\ mainpc' = "construct"
    /\ mainidx' = c + 1
    /\ UNCHANGED <<inputVars, cam, built, frame_count, running, mutex, fps,
                   cbpc, fps_mutex, fps_map, downtime_map, repVars,
                   crashed, histVars>>

\* main, after the construction loop: `std::thread fps_thread(print_fps,
\* interval)`.
MainLaunchReporter ==
    /\ ~crashed
    /\ mainpc = "construct"
    /\ mainidx \notin camera_uris
    /\ reporterpc' = "sleep"
    /\ mainpc' = "sleep"
    /\ UNCHANGED <<count, line, mainidx, inputVars, cam, built, pipeline, frame_count,
                   running, mutex, runpc, fps, cbpc, fps_mutex, fps_map,
                   downtime_map, crashed, histVars>>

\* main, `sleep_for(seconds(6000))` is over: the cleanup loop begins.
MainWake ==
    /\ ~crashed
    /\ mainpc = "sleep"
    /\ mainpc' = IF camera_uris = {} THEN "join" ELSE "set_running"
    /\ mainidx' = 1
    /\ UNCHANGED <<inputVars, cam, built, pipeline, frame_count, running,
                   mutex, runpc, fps, cbpc, fps_mutex, fps_map, downtime_map,
                   repVars, crashed, histVars>>

\* main, cleanup loop, `camera->set_running(false)`.
MainSetRunning(c) ==
    /\ ~crashed
    /\ mainpc = "set_running"
    /\ mainidx = c
    /\ running' = [running EXCEPT ![c] = FALSE]
    /\ mainpc' = "stop"
    /\ UNCHANGED <<mainidx, inputVars, cam, built, pipeline, frame_count,
                   mutex, runpc, fps, cbpc, fps_mutex, fps_map, downtime_map,
                   repVars, crashed, histVars>>

\* main, cleanup loop, `camera->stop()`.
MainStop(c) ==
    /\ ~crashed
    /\ mainpc = "stop"
    /\ mainidx = c
    /\ CanStop(c)
    /\ pipeline' = [pipeline EXCEPT ![c] = "NULL"]
    /\ mainpc' = "delete"
    /\ UNCHANGED <<mainidx, inputVars, cam, built, frame_count, running,
                   mutex, runpc, fps, cbpc, fps_mutex, fps_map, downtime_map,
                   repVars, crashed, histVars>>

\* main, cleanup loop, `delete camera`: ~Camera sets the pipeline to NULL
\* and unreferences it, then the object's memory is freed.  Nothing waits
\* for the thread running Camera::run on this object.  After the last
\* stream main blocks in fps_thread.join().
MainDelete(c) ==
    /\ ~crashed
    /\ mainpc = "delete"
    /\ mainidx = c
    /\ CanStop(c)
    /\ pipeline' = [pipeline EXCEPT ![c] = "NULL"]
    /\ cam' = [cam EXCEPT ![c] = "deleted"]
    /\ mainpc' = IF c + 1 \in camera_uris THEN "set_running" ELSE "join"
    /\ mainidx' = c + 1
    /\ UNCHANGED <<inputVars, built, frame_count, running, mutex, runpc, fps,
                   cbpc, fps_mutex, fps_map, downtime_map, repVars,
                   crashed, histVars>>

\* ---------------------------------------------------------- on_new_sample

\* The streaming thread of a playing pipeline emits new-sample;
\* on_new_sample pulls the sample.  A failed pull is logged and dropped, a
\* successful one goes on to take Camera::mutex.
CbPull(c) ==
    /\ ~crashed
    /\ cam[c] = "live"
    /\ pipeline[c] = "PLAYING"
    /\ cbpc[c] = "idle"
    /\ FramesLeft
    /\ \E ok \in BOOLEAN : cbpc' = [cbpc EXCEPT ![c] = IF ok THEN "wait" ELSE "idle"]
    /\ UNCHANGED <<inputVars, mainVars, cam, built, pipeline, frame_count,
                   running, mutex, runpc, fps, fps_mutex, fps_map,
                   downtime_map, repVars, crashed, histVars>>

\* on_new_sample, `lock_guard lock(camera->mutex); camera->frame_count++;`
\* and the return, which releases the lock.
CbCount(c) ==
    /\ ~crashed
    /\ cbpc[c] = "wait"
    /\ MutexFree(c)
    /\ frame_count' = [frame_count EXCEPT ![c] = @ + 1]
    /\ cbpc' = [cbpc EXCEPT ![c] = "idle"]
    /\ recorded' = [recorded EXCEPT ![c] = @ + 1]
    /\ UNCHANGED <<inputVars, mainVars, cam, built, pipeline, running, mutex,
                   runpc, fps, fps_mutex, fps_map, downtime_map, repVars,
                   crashed, sampled, readCount, lastWin, published, zeroRun>>

\* ------------------------------------------------------------- Camera::run

\* `while (running)`, then `sleep_for(seconds(interval))`.  `running` is a
\* plain bool: on a live object the read returns what main last wrote; on
\* a deleted object it reads freed memory and may return either value.
RunCheck(c) ==
    /\ ~crashed
    /\ runpc[c] = "top"
    /\ \E r \in (IF cam[c] = "live" THEN {running[c]} ELSE BOOLEAN) :
          runpc' = [runpc EXCEPT ![c] = IF r THEN "lock" ELSE "done"]
    /\ UNCHANGED <<inputVars, mainVars, cam, built, pipeline, frame_count,
                   running, mutex, fps, cbpc, fps_mutex, fps_map,
                   downtime_map, repVars, crashed, histVars>>

\* The outcomes of `frame_count / interval`: the truncated quotient; for
\* interval = 0 the behaviour is undefined, and the build either traps (the
\* process is killed) or, on a target whose division does not trap, yields 0.
Quotients(a, b) ==
    IF b # 0 THEN {<<"value", CDiv(a, b)>>}
    ELSE {<<"value", 0>>, <<"trap", 0>>}

\* `lock_guard lock(mutex); int fps = frame_count / interval;`
RunRead(c) ==
    /\ ~crashed
    /\ runpc[c] = "lock"
    /\ MutexFree(c)
    /\ \E q \in Quotients(frame_count[c], interval) :
          IF q[1] = "trap"
          THEN /\ crashed' = TRUE
               /\ UNCHANGED <<mutex, fps, readCount, runpc>>
          ELSE /\ mutex' = [mutex EXCEPT ![c] = Sup(c)]
               /\ fps' = [fps EXCEPT ![c] = q[2]]
               /\ readCount' = [readCount EXCEPT ![c] = frame_count[c]]
               /\ runpc' = [runpc EXCEPT ![c] = "reset"]
               /\ UNCHANGED crashed
    /\ UNCHANGED <<inputVars, mainVars, cam, built, pipeline, frame_count,
                   running, cbpc, fps_mutex, fps_map, downtime_map, repVars,
                   recorded, sampled, lastWin, published, zeroRun>>

\* `frame_count = 0;`, then `lock_guard fps_lock(fps_mutex);`, taken while
\* Camera::mutex is held.  The supervisor stays here, holding Camera::mutex,
\* until fps_mutex is free.
RunReset(c) ==
    /\ ~crashed
    /\ runpc[c] = "reset"
    /\ FpsMutexFree
    /\ frame_count' = [frame_count EXCEPT ![c] = 0]
    /\ fps_mutex' = Sup(c)
    /\ lastWin' = [lastWin EXCEPT ![c] = recorded[c] - sampled[c]]
    /\ sampled' = [sampled EXCEPT ![c] = @ + readCount[c]]
    /\ readCount' = [readCount EXCEPT ![c] = 0]
    /\ runpc' = [runpc EXCEPT ![c] = "publish"]
    /\ UNCHANGED <<inputVars, mainVars, cam, built, pipeline, running, mutex,
                   fps, cbpc, fps_map, downtime_map, repVars, crashed,
                   recorded, published, zeroRun>>

\* Mutant of DowntimeAfter: a window with fps # 0 leaves the counter alone.
DowntimeKeptOnFrames(d, f) == IF f = 0 THEN d + 1 ELSE d

\* The value the stall policy leaves in downtime_map[name] before any
\* reconnect: `if (fps == 0) downtime_map[name] += 1; else downtime_map[name] = 0;`
DowntimeAfter(d, f) == IF f = 0 THEN d + 1 ELSE 0

\* `if (downtime_map[name] >= 5)` inside the fps == 0 branch.
NeedsReconnect(d, f) == f = 0 /\ d >= ReconnectThreshold

\* `fps_map[name] = fps;` and the stall policy up to the reconnect.  Without
\* a reconnect the iteration ends: both locks are released and the locals go
\* out of scope.
RunPublish(c) ==
    /\ ~crashed
    /\ runpc[c] = "publish"
    /\ fps_map' = MapPut(fps_map, Name(c), fps[c])
    /\ LET d == DowntimeAfter(MapGet(downtime_map, Name(c)), fps[c])
       IN  /\ downtime_map' = MapPut(downtime_map, Name(c), d)
           /\ IF NeedsReconnect(d, fps[c])
              THEN /\ runpc' = [runpc EXCEPT ![c] = "reconnect"]
                   /\ UNCHANGED <<mutex, fps_mutex>>
              ELSE /\ runpc' = [runpc EXCEPT ![c] = "top"]
                   /\ mutex' = [mutex EXCEPT ![c] = Free]
                   /\ fps_mutex' = Free
    /\ fps' = [fps EXCEPT ![c] = 0]
    /\ lastWin' = [lastWin EXCEPT ![c] = 0]
    /\ published' = [published EXCEPT ![c] = <<fps[c]>>]
    /\ zeroRun' = [zeroRun EXCEPT ![c] = IF fps[c] = 0 THEN @ + 1 ELSE 0]
    /\ UNCHANGED <<inputVars, mainVars, cam, built, pipeline, frame_count,
                   running, cbpc, repVars, crashed, recorded, sampled,
                   readCount>>

\* The reconnect, `stop(); start(); downtime_map[name] = 0;`, executed with
\* Camera::mutex and fps_mutex held; then the iteration ends and both locks
\* are released.  stop() has to wait for an on_new_sample in flight.
RunReconnect(c) ==
    /\ ~crashed
    /\ runpc[c] = "reconnect"
    /\ CanStop(c)
    /\ \E st \in StartOutcomes(c) : pipeline' = [pipeline EXCEPT ![c] = st]
    /\ downtime_map' = MapPut(downtime_map, Name(c), 0)
    /\ mutex' = [mutex EXCEPT ![c] = Free]
    /\ fps_mutex' = Free
    /\ runpc' = [runpc EXCEPT ![c] = "top"]
    /\ zeroRun' = [zeroRun EXCEPT ![c] = 0]
    /\ UNCHANGED <<inputVars, mainVars, cam, built, frame_count, running,
                   fps, cbpc, fps_map, repVars, crashed, recorded, sampled,
                   readCount, lastWin, published>>

\* Camera::run still executing on an object main has deleted: every access
\* to its members is a use after free, which may also kill the process.
RunUseAfterFree(c) ==
    /\ ~crashed
    /\ cam[c] = "deleted"
    /\ runpc[c] \notin {"none", "done"}
    /\ crashed' = TRUE
    /\ UNCHANGED <<inputVars, mainVars, cam, built, pipeline, frame_count,
                   running, mutex, runpc, fps, cbpc, fps_mutex, fps_map,
                   downtime_map, repVars, histVars>>

\* --------------------------------------------------------------- print_fps

\* Mutant of SortedKeys: the keys in descending order.
RECURSIVE SortedKeysDescending(_)
SortedKeysDescending(S) ==
    IF S = {} THEN <<>>
    ELSE LET k == CHOOSE x \in S : \A y \in S : x >= y
         IN  <<k>> \o SortedKeysDescending(S \ {k})

\* The keys of a std::map in iteration order (ascending).
RECURSIVE SortedKeys(_)
SortedKeys(S) ==
    IF S = {} THEN <<>>
    ELSE LET k == CHOOSE x \in S : \A y \in S : x <= y
         IN  <<k>> \o SortedKeys(S \ {k})

\* Mutant of Highlighted: only a rate of 0 is printed in red.
HighlightedAtZero(v) == v = 0

\* `if (entry.second < 5)`: the entry is printed in red.
Highlighted(v) == v < DisplayThreshold

\* The entries of the map the range-for has still to visit: those whose key
\* is greater than the key of the item written last.
KeysAhead(m, l) ==
    IF l = <<>> THEN DOMAIN m
    ELSE {k \in DOMAIN m : k > l[Len(l)].id}

\* What one iteration of the range-for writes for entry k: `++current`, the
\* item in red or plain, and ", " when `current < count`.
Item(m, k, current, cnt) ==
    [id |-> k, fps |-> m[k], red |-> Highlighted(m[k]), comma |-> current < cnt]

\* `while (true) { sleep_for(seconds(interval));`
RepWake ==
    /\ ~crashed
    /\ reporterpc = "sleep"
    /\ reporterpc' = "lock"
    /\ UNCHANGED <<count, line, inputVars, mainVars, cam, built, pipeline,
                   frame_count, running, mutex, runpc, fps, cbpc, fps_mutex,
                   fps_map, downtime_map, crashed, histVars>>

\* `lock_guard fps_lock(fps_mutex); size_t count = fps_map.size();` and the
\* timestamp; the range-for over fps_map begins.
RepPrint ==
    /\ ~crashed
    /\ reporterpc = "lock"
    /\ FpsMutexFree
    /\ fps_mutex' = Rep
    /\ count' = Cardinality(DOMAIN fps_map)
    /\ line' = <<>>
    /\ reporterpc' = IF DOMAIN fps_map = {} THEN "printed" ELSE "iterate"
    /\ UNCHANGED <<inputVars, mainVars, cam, built, pipeline, frame_count,
                   running, mutex, runpc, fps, cbpc, fps_map, downtime_map,
                   crashed, histVars>>

\* One iteration of `for (const auto& entry : fps_map)`: the next entry in
\* key order is read from the map and written.  After the last entry the
\* line is complete.
RepItem ==
    /\ ~crashed
    /\ reporterpc = "iterate"
    /\ LET k == SortedKeys(KeysAhead(fps_map, line))[1]
           written == Append(line, Item(fps_map, k, Len(line) + 1, count))
       IN  /\ line' = written
           /\ reporterpc' = IF KeysAhead(fps_map, written) # {}
                             THEN "iterate" ELSE "printed"
    /\ UNCHANGED <<count, inputVars, mainVars, cam, built, pipeline,
                   frame_count, running, mutex, runpc, fps, cbpc, fps_mutex,
                   fps_map, downtime_map, crashed, histVars>>

\* `std::cout << std::endl;` and the end of the iteration, which releases
\* fps_mutex.  The loop has no exit.
RepUnlock ==
    /\ ~crashed
    /\ reporterpc = "printed"
    /\ fps_mutex' = Free
    /\ count' = 0
    /\ line' = <<>>
    /\ reporterpc' = "sleep"
    /\ UNCHANGED <<inputVars, mainVars, cam, built, pipeline, frame_count,
                   running, mutex, runpc, fps, cbpc, fps_map, downtime_map,
                   crashed, histVars>>

\* ------------------------------------------------------------ specification

Next ==
    \/ MainParse
    \/ MainRead
    \/ \E c \in CamIds : MainConstruct(c)
    \/ \E c \in CamIds : MainStart(c)
    \/ MainLaunchReporter
    \/ MainWake
    \/ \E c \in CamIds : MainSetRunning(c)
    \/ \E c \in CamIds : MainStop(c)
    \/ \E c \in CamIds : MainDelete(c)
    \/ \E c \in CamIds : CbPull(c)
    \/ \E c \in CamIds : CbCount(c)
    \/ \E c \in CamIds : RunCheck(c)
    \/ \E c \in CamIds : RunRead(c)
    \/ \E c \in CamIds : RunReset(c)
    \/ \E c \in CamIds : RunPublish(c)
    \/ \E c \in CamIds : RunReconnect(c)
    \/ \E c \in CamIds : RunUseAfterFree(c)
    \/ RepWake
    \/ RepPrint
    \/ RepItem
    \/ RepUnlock

\* One configured stream at most, every command line.
InitStream == Init /\ file \in {<<"unreadable", 0>>, <<"lines", 0>>, <<"lines", 1>>}

SpecStream == InitStream /\ [][Next]_vars

\* Up to MaxCams streams sampled every second, whose sources deliver one
\* frame between them.
InitFleet == Init /\ argv1 = <<"number", 1>> /\ file[1] = "lines" /\ supply = 1

SpecFleet == InitFleet /\ [][Next]_vars

\* The threads the scheduler keeps running: main, the Reporter, every
\* supervisor, and an on_new_sample that has pulled its sample.  Whether a
\* source delivers a frame at all is left to the source.
MainThread ==
    \/ MainParse
    \/ MainRead
    \/ \E c \in CamIds : MainConstruct(c) \/ MainStart(c)
    \/ MainLaunchReporter
    \/ MainWake
    \/ \E c \in CamIds : MainSetRunning(c) \/ MainStop(c) \/ MainDelete(c)

ReporterThread == RepWake \/ RepPrint \/ RepItem \/ RepUnlock

RunThread(c) ==
    RunCheck(c) \/ RunRead(c) \/ RunReset(c) \/ RunPublish(c) \/ RunReconnect(c)

Fairness ==
    /\ WF_vars(MainThread)
    /\ WF_vars(ReporterThread)
    /\ \A c \in CamIds : WF_vars(RunThread(c)) /\ WF_vars(CbCount(c))

FairStream == SpecStream /\ Fairness

\* main before and after its `sleep_for(seconds(6000))`.
MainAwake ==
    \/ MainParse
    \/ MainRead
    \/ \E c \in CamIds : MainConstruct(c) \/ MainStart(c)
    \/ MainLaunchReporter
    \/ \E c \in CamIds : MainSetRunning(c) \/ MainStop(c) \/ MainDelete(c)

\* The monitoring phase: every thread is scheduled, and main's sleep of
\* 6000 seconds is not forced to end within the run that is observed.  A
\* thread blocked in a lock() gets the mutex when it is released again and
\* again, because every other holder sleeps between two acquisitions.
MonitoringFairness ==
    /\ WF_vars(MainAwake)
    /\ SF_vars(ReporterThread)
    /\ \A c \in CamIds : SF_vars(RunThread(c)) /\ SF_vars(CbCount(c))

FairMonitoring == SpecStream /\ MonitoringFairness

\* The registry entries a supervisor sampling every second can have left
\* for its stream when it is between two iterations: none before its first
\* sample (the constructor's -1 in downtime_map), a positive rate with the
\* counter at 0, or a zero rate with the counter below the threshold.
EntryStates ==
    {<<"none", 0, InitialDowntime>>}
        \cup {<<"entry", v, 0>> : v \in 1..MaxFps}
        \cup {<<"entry", 0, d>> : d \in 0..(ReconnectThreshold - 1)}

\* The monitoring phase at an instant where every supervisor sleeps between
\* two iterations and the Reporter is about to wake: main is in its
\* sleep_for(6000 s), every stream has been constructed and started, and
\* the two maps hold what the supervisors have left there.
InitReport ==
    /\ \E e \in [CamIds -> EntryStates] :
          /\ fps_map = [k \in {Name(c) : c \in {d \in CamIds : e[d][1] = "entry"}} |->
                            e[CHOOSE c \in CamIds : Name(c) = k][2]]
          /\ downtime_map = [k \in {Name(c) : c \in CamIds} |->
                                 e[CHOOSE c \in CamIds : Name(c) = k][3]]
          /\ published = [c \in CamIds |->
                              IF e[c][1] = "entry" THEN <<e[c][2]>> ELSE <<>>]
          /\ zeroRun = [c \in CamIds |->
                            IF e[c][1] = "entry" /\ e[c][2] = 0 THEN e[c][3] ELSE 0]
          /\ recorded = [c \in CamIds |-> e[c][2]]
          /\ sampled = [c \in CamIds |-> e[c][2]]
    /\ argv1 = <<"number", 1>>
    /\ supply = MaxFrames
    /\ file = <<"lines", MaxCams>>
    /\ interval = 1
    /\ camera_uris = CamIds
    /\ mainpc = "sleep"
    /\ mainidx = MaxCams + 1
    /\ cam = [c \in CamIds |-> "live"]
    /\ built = [c \in CamIds |-> TRUE]
    /\ pipeline = [c \in CamIds |-> "PLAYING"]
    /\ frame_count = [c \in CamIds |-> 0]
    /\ running = [c \in CamIds |-> TRUE]
    /\ mutex = [c \in CamIds |-> Free]
    /\ runpc = [c \in CamIds |-> "top"]
    /\ fps = [c \in CamIds |-> 0]
    /\ cbpc = [c \in CamIds |-> "idle"]
    /\ fps_mutex = Free
    /\ reporterpc = "sleep"
    /\ count = 0
    /\ line = <<>>
    /\ crashed = FALSE
    /\ readCount = [c \in CamIds |-> 0]
    /\ lastWin = [c \in CamIds |-> 0]

\* One pass of print_fps over such a registry.
SpecReport == InitReport /\ [][ReporterThread]_vars

\* ------------------------------------------------------ positions of main

\* main has executed `camera->set_running(false)` for stream c.
Signalled(c) ==
    /\ c \in camera_uris
    /\ \/ mainpc \in {"stop", "delete"} /\ mainidx >= c
       \/ mainpc = "set_running" /\ mainidx > c
       \/ mainpc = "join"

\* main has executed `camera->set_running(false); camera->stop();` for c.
Halted(c) ==
    /\ c \in camera_uris
    /\ \/ mainpc = "delete" /\ mainidx >= c
       \/ mainpc \in {"set_running", "stop"} /\ mainidx > c
       \/ mainpc = "join"

\* Stream c has an entry in fps_map and its last published rate is 0.
ZeroFps(c) == Name(c) \in DOMAIN fps_map /\ fps_map[Name(c)] = 0

\* The supervisor of stream c completes `fps_map[name] = fps` and the stall
\* policy in this step.
Publishes(c) == runpc[c] = "publish" /\ runpc'[c] # "publish"

\* ----------------------------------------------------------------- claims

\* C1: a reconnect is issued in a window if and only if that window is the
\* 5th consecutive zero-fps window counted since start-up, the last window
\* with fps > 0, or the last reconnect.  The supervisor is about to
\* reconnect exactly in the states where 5 such windows have been counted
\* (stated for the intervals >= 1 of normal operation).
C1_ReconnectAtFifthZeroWindow ==
    interval >= 1 =>
        \A c \in CamIds :
            (runpc[c] = "reconnect") <=> (zeroRun[c] = ReconnectThreshold)

\* C2: every frame is counted in exactly one sampling window: the frames
\* recorded so far are the pre-reset counts of the samples taken so far plus
\* the current frame_count, whatever the interleaving of on_new_sample and
\* the supervisor's sampling step.
C2_FramesCountedOnce ==
    \A c \in CamIds :
        cam[c] # "deleted" => recorded[c] = sampled[c] + frame_count[c]

\* C2 witness: a sample with a positive count has been taken, and a later
\* callback waits for the lock while the supervisor holds it between the
\* read and the reset of its next sample.
C2_Witness ==
    \E c \in CamIds :
        /\ cam[c] = "live"
        /\ sampled[c] > 0
        /\ runpc[c] = "reset"
        /\ cbpc[c] = "wait"

\* C3 (state part): frame_count is 0 immediately after the sample and is
\* never negative.
C3_CounterState ==
    \A c \in CamIds :
        /\ frame_count[c] >= 0
        /\ (runpc[c] = "publish" /\ cam[c] # "deleted") => frame_count[c] = 0

\* q is the quotient of a >= 0 by b # 0 truncated towards zero.
IsTruncatedQuotient(q, a, b) ==
    /\ Abs(q) * Abs(b) <= a
    /\ a < (Abs(q) + 1) * Abs(b)
    /\ IF b > 0 THEN q >= 0 ELSE q <= 0

\* C3 (step part): the value a sampling iteration publishes is the number
\* of frames recorded in that window divided by the interval, truncated,
\* for every interval whose quotient is defined.
C3_PublishStep ==
    \A c \in CamIds :
        (Publishes(c) /\ interval # 0) =>
            /\ Name(c) \in DOMAIN fps_map'
            /\ IsTruncatedQuotient(fps_map'[Name(c)], lastWin[c], interval)

\* C3: for every sampling iteration the published value equals the frames
\* counted in that window divided by the interval (integer division), the
\* counter is 0 right after the sample, and it is never negative.
C3_PublishedRate == [](C3_CounterState) /\ [][C3_PublishStep]_vars

\* C3 witness: a window in which 1 frame was recorded is about to be
\* published with interval 2, where the division truncates.
C3_Witness ==
    \E c \in CamIds :
        /\ runpc[c] = "publish"
        /\ cam[c] = "live"
        /\ lastWin[c] = 1
        /\ interval = 2

\* C4 (state part): fps_map has exactly one entry for each stream whose
\* supervisor has completed a sample, none for any other key, and each
\* entry holds the value that stream's supervisor published last.
C4_RegistryState ==
    /\ DOMAIN fps_map = {Name(c) : c \in {d \in CamIds : published[d] # <<>>}}
    /\ DOMAIN fps_map \subseteq {Name(c) : c \in camera_uris}
    /\ \A c \in CamIds :
          published[c] # <<>> => fps_map[Name(c)] = published[c][1]

\* C4 (step part): no entry of fps_map is ever removed.
C4_NoRemoval == DOMAIN fps_map \subseteq DOMAIN fps_map'

\* C4: after any interleaving of registry writes by the supervisors and
\* reads by the Reporter, fps_map holds exactly one entry per stream that
\* has sampled, with the value it published last, and never loses an entry.
C4_RegistryEntries == [](C4_RegistryState) /\ [][C4_NoRemoval]_vars

\* C4 witness: two supervisors have published different values and the
\* Reporter is reading the registry.
C4_Witness ==
    /\ Cardinality(DOMAIN fps_map) = 2
    /\ \E c, d \in CamIds :
          /\ published[c] # <<>>
          /\ published[d] # <<>>
          /\ published[c] # published[d]
    /\ reporterpc = "printed"

\* C5: STOPPED is terminal: once main has executed set_running(false) and
\* stop() for a stream, its pipeline is never playing again.
C5_StoppedIsTerminal ==
    interval >= 1 =>
        \A c \in CamIds : Halted(c) => pipeline[c] # "PLAYING"

\* C6: the per-stream state is destroyed only after every supervisor's run
\* loop has exited, so no supervisor step touches a destroyed Camera.
C6_DestroyAfterLoopsExit ==
    interval >= 1 =>
        \A c \in camera_uris :
            cam[c] = "deleted" => \A d \in camera_uris : runpc[d] = "done"

\* C7: once the run duration has elapsed and every supervisor has been
\* stopped (main waits in fps_thread.join()), the Reporter loop eventually
\* exits and main returns, unless the process is killed first.
C7_ReporterStops ==
    (mainpc = "join" /\ camera_uris # {} /\ ~crashed /\ interval >= 1)
        ~> (crashed \/ (reporterpc = "exited" /\ mainpc = "returned"))

\* C8: a supervisor's run loop exits only when it has been signalled to
\* stop, and once signalled it eventually exits (unless the process is
\* killed first).
C8_LoopExitsWhenSignalled ==
    \A c \in CamIds :
        /\ [](runpc[c] = "done" => Signalled(c))
        /\ (Signalled(c) /\ ~crashed /\ interval >= 1)
               ~> (crashed \/ runpc[c] = "done")

\* C9 (step part): for interval >= 1, a window in which at least one frame
\* was recorded sets downtime_map[name] to 0 and leads to no reconnect, and
\* only a window with exactly 0 recorded frames increments it.
C9_PolicyStep ==
    \A c \in CamIds :
        (Publishes(c) /\ interval >= 1) =>
            IF lastWin[c] > 0
            THEN /\ MapGet(downtime_map', Name(c)) = 0
                 /\ runpc'[c] # "reconnect"
            ELSE MapGet(downtime_map', Name(c)) = MapGet(downtime_map, Name(c)) + 1

\* C9: downtime_windows counts consecutive sampling windows in which zero
\* frames were observed.
C9_CountsZeroFrameWindows == [][C9_PolicyStep]_vars

\* C10 (original, step part): while the published rate of a stream stays 0,
\* its downtime counter never decreases.
C10_NeverDecreasesStep ==
    \A c \in CamIds :
        (ZeroFps(c) /\ ZeroFps(c)') =>
            MapGet(downtime_map', Name(c)) >= MapGet(downtime_map, Name(c))

\* C10 (state part): a stream whose last published rate is positive has its
\* downtime counter at 0.
C10_ResetOnPositive ==
    \A c \in CamIds :
        (Name(c) \in DOMAIN fps_map /\ fps_map[Name(c)] > 0) =>
            MapGet(downtime_map, Name(c)) = 0

\* C10 as claimed: across consecutive windows in which fps stays 0 the
\* downtime counter never decreases, and it is 0 from the first window in
\* which fps > 0.
C10_Original == [](C10_ResetOnPositive) /\ [][C10_NeverDecreasesStep]_vars

\* C10 (amended, step part): while the published rate stays 0 the counter
\* decreases only in the step that completes a reconnect, which sets it to 0.
C10_AmendedStep ==
    \A c \in CamIds :
        (ZeroFps(c) /\ ZeroFps(c)') =>
            \/ MapGet(downtime_map', Name(c)) >= MapGet(downtime_map, Name(c))
            \/ /\ runpc[c] = "reconnect"
               /\ runpc'[c] = "top"
               /\ MapGet(downtime_map', Name(c)) = 0

\* C10 amended: across consecutive windows in which fps stays 0 the
\* downtime counter never decreases except when a reconnect resets it to 0,
\* and it is 0 from the first window in which fps > 0.
C10_MonotoneUntilReconnect ==
    [](C10_ResetOnPositive) /\ [][C10_AmendedStep]_vars

\* C10 witness: a reconnect has just reset the counter of a stream whose
\* rate is still 0, after the counter had reached the threshold.
C10_Witness ==
    \E c \in CamIds :
        /\ ZeroFps(c)
        /\ runpc[c] = "top"
        /\ zeroRun[c] = 0
        /\ MapGet(downtime_map, Name(c)) = 0
        /\ cam[c] = "live"

C12_LineSortedAndComplete ==
    reporterpc = "printed" =>
        /\ Len(line) = Cardinality(DOMAIN fps_map)
        /\ {line[i].id : i \in 1..Len(line)} = DOMAIN fps_map
        /\ \A i, j \in 1..Len(line) : i < j => line[i].id < line[j].id
        /\ \A i \in 1..Len(line) :
              /\ line[i].fps = fps_map[line[i].id]
              /\ line[i].comma <=> (i < Len(line))

\* C12 witness: a line with two items is being written; the first stream
\* has published a positive rate and the second a zero rate.
C12_Witness ==
    /\ reporterpc = "printed"
    /\ Len(line) = 2
    /\ line[1].fps > 0
    /\ line[2].fps = 0

Printing == reporterpc \in {"iterate", "printed"}

\* C14 (state part): every item written so far is an entry of fps_map with
\* the value the map holds now, and a complete line holds exactly the
\* (id, fps) pairs of the map.
C14_LineMatchesRegistry ==
    Printing =>
        /\ \A i \in 1..Len(line) :
              /\ line[i].id \in DOMAIN fps_map
              /\ line[i].fps = fps_map[line[i].id]
        /\ reporterpc = "printed" =>
              {<<line[i].id, line[i].fps>> : i \in 1..Len(line)}
                  = {<<k, fps_map[k]>> : k \in DOMAIN fps_map}

\* C14 (step part): no supervisor write changes fps_map while a line is
\* being written.
C14_NoWriteDuringLine == (Printing /\ Printing') => fps_map' = fps_map

\* C14: every Reporter line is a consistent snapshot: its (id, fps) pairs
\* are the content of fps_map at one instant (any instant between the lock
\* and the end of the line), never a mix of the states before and after a
\* supervisor's write.
C14_ConsistentSnapshot ==
    [](C14_LineMatchesRegistry) /\ [][C14_NoWriteDuringLine]_vars

\* C14 witness: the Reporter has written the first of two items while a
\* supervisor, holding a sample that differs from its registry entry,
\* waits for fps_mutex.
C14_Witness ==
    /\ reporterpc = "iterate"
    /\ Len(line) = 1
    /\ count = 2
    /\ \E c \in CamIds :
          /\ runpc[c] = "reset"
          /\ cam[c] = "live"
          /\ Name(c) \in DOMAIN fps_map
          /\ fps[c] # fps_map[Name(c)]

\* C15: a stream whose constructor could not create its elements is skipped
\* for the run: it gets no supervisor thread (so it is neither started nor
\* sampled) and no entry in fps_map.
C15_FailedStreamSkipped ==
    interval >= 1 =>
        \A c \in CamIds :
            (cam[c] = "live" /\ ~built[c]) =>
                /\ runpc[c] = "none"
                /\ Name(c) \notin DOMAIN fps_map

\* C16: when the stream list cannot be read at all the run is aborted:
\* neither a supervisor nor the Reporter is ever started and main never
\* enters the monitoring phase (stated for a valid interval argument).
C16_UnreadableListAborts ==
    (file[1] = "unreadable" /\ argv1[1] = "number" /\ interval >= 1) =>
        /\ reporterpc = "none"
        /\ \A c \in CamIds : runpc[c] = "none"
        /\ mainpc \notin {"sleep", "join"}

\* C17: when the interval argument is omitted or is not a whole number,
\* main prints the usage message and exits with status 1, and no stream and
\* no Reporter is constructed or started.
C17_UsageOnBadArgument ==
    argv1[1] # "number" =>
        /\ mainpc \in {"args", "usage"}
        /\ reporterpc = "none"
        /\ \A c \in CamIds : cam[c] = "absent" /\ runpc[c] = "none"

\* C18: Camera::mutex is held only for the read and reset of frame_count:
\* a supervisor does not hold it while it publishes to the registry or
\* while it calls stop()/start() in a reconnect.
C18_StreamLockOnlyForCounter ==
    interval >= 1 =>
        \A c \in CamIds :
            (cam[c] = "live" /\ runpc[c] \in {"publish", "reconnect"}) =>
                mutex[c] # Sup(c)

\* C19: fps_mutex is held only for the map accesses: no supervisor holds
\* it while it calls stop()/start(), so the Reporter (and any other
\* supervisor) is not kept out of the registry during a reconnect.
C19_RegistryLockOnlyForMap ==
    interval >= 1 =>
        \A c \in CamIds :
            (cam[c] = "live" /\ runpc[c] = "reconnect") =>
                /\ fps_mutex # Sup(c)
                /\ reporterpc = "lock" => ENABLED RepPrint

\* Some activity waits for a lock or for the collaborator.
SomeoneWaits ==
    \/ \E c \in CamIds : runpc[c] \in {"lock", "reset", "reconnect"}
    \/ \E c \in CamIds : cbpc[c] = "wait"
    \/ reporterpc = "lock"
    \/ mainpc \in {"stop", "delete"}

\* C20: the system is deadlock-free: whenever some activity waits for a
\* lock or for the collaborator, some activity can take a step; and a
\* reconnect, once Camera::run has reached stop(), completes, also when an
\* on_new_sample is waiting for Camera::mutex (unless the process is
\* killed).
C20_DeadlockFree ==
    /\ []((SomeoneWaits /\ ~crashed) => ENABLED <<Next>>_vars)
    /\ \A c \in CamIds :
          (runpc[c] = "reconnect" /\ interval >= 1)
              ~> (runpc[c] # "reconnect" \/ crashed)

\* The step changes fps_map or downtime_map.
MapsWritten == fps_map' # fps_map \/ downtime_map' # downtime_map

\* C21 (step part): a supervisor writes the maps only while it holds
\* fps_mutex, and main writes them only while no supervisor is inside the
\* scope of its fps_lock.
C21_WriteStep ==
    MapsWritten =>
        IF mainpc' # mainpc
        THEN ~SupervisorInMaps
        ELSE \E c \in CamIds : runpc'[c] # runpc[c] /\ fps_mutex = Sup(c)

\* C21: fps_map and downtime_map are accessed only under fps_mutex, so no
\* two activities are in the maps at the same time: the Reporter reads
\* fps_map holding fps_mutex, and no write by main or a supervisor happens
\* while another activity is inside its locked region, also while later
\* cameras are constructed after earlier supervisors were launched.
C21_MapsUnderMutex ==
    [](Printing => fps_mutex = Rep) /\ [][C21_WriteStep]_vars

\* The supervisor of stream c is not in the middle of a sampling iteration.
BetweenIterations(c) == runpc[c] \in {"none", "top", "done"}

\* C22: each stream's downtime counter is a non-negative integer in every
\* reachable state, and it is in 0..4 whenever the stream's supervisor is
\* not in the middle of a sampling iteration (stated for intervals >= 1).
C22_DowntimeRange ==
    interval >= 1 =>
        \A c \in CamIds :
            Name(c) \in DOMAIN downtime_map =>
                /\ downtime_map[Name(c)] >= 0
                /\ BetweenIterations(c) =>
                      downtime_map[Name(c)] \in 0..(ReconnectThreshold - 1)

\* C23: every interval that main accepts and hands to a supervisor thread
\* or to the Reporter thread is a whole number >= 1, so that the divisor of
\* `frame_count / interval` is never 0 and no sleep interval is negative.
C23_IntervalAtLeastOne ==
    /\ (reporterpc # "none" \/ \E c \in CamIds : runpc[c] # "none") =>
          interval >= 1
    /\ \A c \in CamIds : runpc[c] = "lock" => interval # 0

====
